---- MODULE Spec2Model ----
(***************************************************************************)
(* wmouse: keyboard-driven virtual pointer (src/src/main.rs).               *)
(*                                                                         *)
(* The model follows main(): one roundtrip, then the loop                  *)
(*   process_input_events -> update_and_handle_mouse_state ->              *)
(*   dispatch_pending -> sleep.                                            *)
(* The Dispatch handlers are entry points of the event queue; under Spec   *)
(* the display server may deliver any registry or seat event to them       *)
(* while the queue is being dispatched.                                    *)
(*                                                                         *)
(* f64 values are modelled as integers: every value the code computes is   *)
(* an integer multiple of MOUSE_SPEED, and the normalisation               *)
(* (v * 65535.0 / max) as u32 truncates an exactly-representable product.  *)
(***************************************************************************)
EXTENDS Integers, Sequences, FiniteSets, TLC

\* ---- Key mappings (main.rs 26-32) ----
META_KEY == 125
MOVE_LEFT == 105
MOVE_RIGHT == 106
MOVE_UP == 103
MOVE_DOWN == 108
MOUSE_LEFT == 97
MOUSE_RIGHT == 96
\* a key identifier none of the constants above matches (KEY_A)
OTHER_KEY == 30

\* ---- Mouse settings (main.rs 35) and literals of the tick ----
MOUSE_SPEED == 10
SCREEN_W == 1920
SCREEN_H == 1080
NORM_MAX == 65535
BTN_LEFT == 272
BTN_RIGHT == 273

\* key identifiers the device source may report
Keys == {META_KEY, MOVE_LEFT, MOVE_RIGHT, MOVE_UP, MOVE_DOWN,
         MOUSE_LEFT, MOUSE_RIGHT, OTHER_KEY}

\* interface names a wl_registry Global event may carry
Interfaces == {"zwlr_virtual_pointer_manager_v1", "wl_seat", "wl_compositor"}

\* wl_seat capabilities as announced: ok is FALSE when
\* capabilities.into_result() fails, caps is the decoded set otherwise
SeatCaps == [ok : BOOLEAN, caps : SUBSET {"Pointer", "Keyboard"}]

VARIABLES
    pc,               \* position of main(): roundtrip, drain, tick, dispatch, sleep, exit
    pointer_manager,  \* State.pointer_manager: "None" or "Some"
    virtual_pointer,  \* State.virtual_pointer: "None" or "Some"
    active_keys,      \* State.active_keys
    prev_left_click,  \* State.prev_left_click
    prev_right_click, \* State.prev_right_click
    state,            \* the MouseState returned by the latest tick
    out,              \* requests sent to the virtual pointer by the latest tick
    wl_event,         \* the event the queue is handing to a Dispatch handler
    created,          \* number of create_virtual_pointer requests made
    last_pressed,     \* history: keys whose most recent device event is a press
    sink_left,        \* history: the last left-button state sent is Pressed
    sink_right,       \* history: the last right-button state sent is Pressed
    drain_first       \* history: the first key pressed in the current drain, if any

vars == <<pc, pointer_manager, virtual_pointer, active_keys,
          prev_left_click, prev_right_click, state, out,
          wl_event, created, last_pressed, sink_left, sink_right,
          drain_first>>

\* State and the latest tick's result
program == <<pointer_manager, virtual_pointer, active_keys,
             prev_left_click, prev_right_click, state, out, created>>

\* what the device source and the sink have seen
history == <<last_pressed, sink_left, sink_right, drain_first>>

\* events of the Wayland queue
NoEvent == [type |-> "none"]
GlobalEvent(interface) == [type |-> "global", interface |-> interface]
CapabilitiesEvent(caps) == [type |-> "capabilities", caps |-> caps]

Max(a, b) == IF a >= b THEN a ELSE b
Min(a, b) == IF a <= b THEN a ELSE b

\* #[derive(Default)] struct MouseState
MouseStateDefault ==
    [dx |-> 0, dy |-> 0, left_click |-> FALSE, right_click |-> FALSE,
     x |-> 0, y |-> 0]

\* State::new
Init ==
    /\ pc = "roundtrip"
    /\ pointer_manager = "None"
    /\ virtual_pointer = "None"
    /\ active_keys = {}
    /\ prev_left_click = FALSE
    /\ prev_right_click = FALSE
    /\ state = MouseStateDefault
    /\ out = <<>>
    /\ wl_event = NoEvent
    /\ created = 0
    /\ last_pressed = {}
    /\ sink_left = FALSE
    /\ sink_right = FALSE
    /\ drain_first = {}

\* ---- update_and_handle_mouse_state, pure parts ----

\* Dx with the two tests chained by else
DxElseIf(keys) ==
    IF MOVE_LEFT \in keys THEN -MOUSE_SPEED
    ELSE IF MOVE_RIGHT \in keys THEN MOUSE_SPEED ELSE 0

\* lines 92-93: state.dx starts at 0.0
Dx(keys) ==
    (IF MOVE_LEFT \in keys THEN -MOUSE_SPEED ELSE 0)
    + (IF MOVE_RIGHT \in keys THEN MOUSE_SPEED ELSE 0)

\* lines 94-95
Dy(keys) ==
    (IF MOVE_UP \in keys THEN -MOUSE_SPEED ELSE 0)
    + (IF MOVE_DOWN \in keys THEN MOUSE_SPEED ELSE 0)

\* Clamp without the lower bound
ClampNoFloor(v, hi) == Min(v, hi)

\* lines 102-103: v.max(0.0).min(hi)
Clamp(v, hi) == Min(Max(v, 0), hi)

\* lines 98-103: the position is integrated from the fresh MouseState of
\* line 85, then clamped
Integrate(start, d, hi) == Clamp(start + d, hi)

\* Normalize rounding to nearest instead of truncating
NormalizeRound(v, hi) == (2 * v * NORM_MAX + hi) \div (2 * hi)

\* lines 114-115: (v * 65535.0 / max) as u32
Normalize(v, hi) == (v * NORM_MAX) \div hi

\* lines 85-107: the MouseState the tick computes
TickState(keys) ==
    IF META_KEY \notin keys
    THEN MouseStateDefault
    ELSE [dx |-> Dx(keys),
          dy |-> Dy(keys),
          left_click |-> MOUSE_LEFT \in keys,
          right_click |-> MOUSE_RIGHT \in keys,
          x |-> Integrate(MouseStateDefault.x, Dx(keys), SCREEN_W),
          y |-> Integrate(MouseStateDefault.y, Dy(keys), SCREEN_H)]

\* requests of the zwlr_virtual_pointer_v1 protocol
Motion(x, y) ==
    [op |-> "motion_absolute", time |-> 0, x |-> x, y |-> y,
     x_extent |-> NORM_MAX, y_extent |-> NORM_MAX]
Button(code, pressed) ==
    [op |-> "button", time |-> 0, button |-> code,
     state |-> IF pressed THEN "Pressed" ELSE "Released"]
Frame == [op |-> "frame"]

\* MotionRequests without the dx/dy test
MotionRequestsAlways(vp, st) ==
    IF vp = "Some"
    THEN << Motion(Normalize(st.x, SCREEN_W), Normalize(st.y, SCREEN_H)), Frame >>
    ELSE << >>

\* MotionRequests without the frame() call
MotionRequestsNoFrame(vp, st) ==
    IF vp = "Some" /\ (st.dx # 0 \/ st.dy # 0)
    THEN << Motion(Normalize(st.x, SCREEN_W), Normalize(st.y, SCREEN_H)) >>
    ELSE << >>

\* lines 110-121
MotionRequests(vp, st) ==
    IF vp = "Some" /\ (st.dx # 0 \/ st.dy # 0)
    THEN << Motion(Normalize(st.x, SCREEN_W), Normalize(st.y, SCREEN_H)), Frame >>
    ELSE << >>

\* ButtonRequests testing the level of the key instead of its change
ButtonRequestsLevel(vp, code, click, prev) ==
    IF vp = "Some" /\ click
    THEN << Button(code, click), Frame >>
    ELSE << >>

\* ButtonRequests outside the `if let Some(virtual_pointer)`
ButtonRequestsNoHandle(vp, code, click, prev) ==
    IF click # prev
    THEN << Button(code, click), Frame >>
    ELSE << >>

\* lines 129-134 and 137-142, inside `if let Some(virtual_pointer)` of 124
ButtonRequests(vp, code, click, prev) ==
    IF vp = "Some" /\ click # prev
    THEN << Button(code, click), Frame >>
    ELSE << >>

\* NextPrev without the assignments of lines 133 and 141
NextPrevKeep(vp, click, prev) == prev

\* NextPrev assigning outside the `if let Some(virtual_pointer)`
NextPrevAlways(vp, click, prev) == click

\* lines 133 and 141: the stored flag follows the click only when a request
\* was sent
NextPrev(vp, click, prev) ==
    IF vp = "Some" /\ click # prev THEN click ELSE prev

\* TickRequests with the right button handled before the left one
TickRequestsRightFirst(keys, vp, st, prev_left, prev_right) ==
    IF META_KEY \notin keys
    THEN << >>
    ELSE MotionRequests(vp, st)
         \o ButtonRequests(vp, BTN_RIGHT, st.right_click, prev_right)
         \o ButtonRequests(vp, BTN_LEFT, st.left_click, prev_left)

\* TickRequests without the early return of lines 87-89
TickRequestsUngated(keys, vp, st, prev_left, prev_right) ==
    MotionRequests(vp, st)
    \o ButtonRequests(vp, BTN_LEFT, st.left_click, prev_left)
    \o ButtonRequests(vp, BTN_RIGHT, st.right_click, prev_right)

\* lines 109-143 behind the gate of lines 87-89: the requests of one tick,
\* in the order they are sent
TickRequests(keys, vp, st, prev_left, prev_right) ==
    IF META_KEY \notin keys
    THEN << >>
    ELSE MotionRequests(vp, st)
         \o ButtonRequests(vp, BTN_LEFT, st.left_click, prev_left)
         \o ButtonRequests(vp, BTN_RIGHT, st.right_click, prev_right)

\* ApplyKey toggling membership on every event
ApplyKeyToggle(keys, key, pressed) ==
    IF key \in keys THEN keys \ {key} ELSE keys \cup {key}

\* lines 215-220: HashSet::insert / HashSet::remove
ApplyKey(keys, key, pressed) ==
    IF pressed THEN keys \cup {key} ELSE keys \ {key}

\* the button state the sink holds for `code` after receiving `reqs`:
\* that of the last button request for it, `before` if there is none
RECURSIVE SinkButton(_, _, _)
SinkButton(reqs, code, before) ==
    IF reqs = << >> THEN before
    ELSE LET r == Head(reqs)
             now == IF r.op = "button" /\ r.button = code
                    THEN r.state = "Pressed" ELSE before
         IN SinkButton(Tail(reqs), code, now)

\* ---- main(), lines 244-255 ----

\* Dispatch<WlRegistry>::event, lines 195-207
RegistryGlobal(interface) ==
    /\ pc \in {"roundtrip", "dispatch"}
    /\ wl_event' = GlobalEvent(interface)
    /\ pointer_manager' =
         IF interface = "zwlr_virtual_pointer_manager_v1" THEN "Some"
         ELSE pointer_manager
    /\ UNCHANGED <<pc, virtual_pointer, active_keys, prev_left_click,
                   prev_right_click, state, out, created, history>>

\* SeatCapabilities without caps.contains(Capability::Pointer)
SeatCapabilitiesAnyCaps(caps) ==
    /\ pc \in {"roundtrip", "dispatch"}
    /\ wl_event' = CapabilitiesEvent(caps)
    /\ IF /\ caps.ok
          /\ virtual_pointer = "None"
          /\ pointer_manager = "Some"
       THEN virtual_pointer' = "Some" /\ created' = created + 1
       ELSE UNCHANGED <<virtual_pointer, created>>
    /\ UNCHANGED <<pc, pointer_manager, active_keys, prev_left_click,
                   prev_right_click, state, out, history>>

\* SeatCapabilities without state.virtual_pointer.is_none()
SeatCapabilitiesNoNoneCheck(caps) ==
    /\ pc \in {"roundtrip", "dispatch"}
    /\ wl_event' = CapabilitiesEvent(caps)
    /\ IF /\ caps.ok
          /\ "Pointer" \in caps.caps
          /\ pointer_manager = "Some"
       THEN virtual_pointer' = "Some" /\ created' = created + 1
       ELSE UNCHANGED <<virtual_pointer, created>>
    /\ UNCHANGED <<pc, pointer_manager, active_keys, prev_left_click,
                   prev_right_click, state, out, history>>

\* Dispatch<WlSeat>::event, lines 162-174
SeatCapabilities(caps) ==
    /\ pc \in {"roundtrip", "dispatch"}
    /\ wl_event' = CapabilitiesEvent(caps)
    /\ IF /\ caps.ok
          /\ "Pointer" \in caps.caps
          /\ virtual_pointer = "None"
          /\ pointer_manager = "Some"
       THEN virtual_pointer' = "Some" /\ created' = created + 1
       ELSE UNCHANGED <<virtual_pointer, created>>
    /\ UNCHANGED <<pc, pointer_manager, active_keys, prev_left_click,
                   prev_right_click, state, out, history>>

\* lines 244-247: roundtrip returned and the libinput seat was assigned
SetupDone ==
    /\ pc = "roundtrip"
    /\ pc' = "drain"
    /\ wl_event' = NoEvent
    /\ UNCHANGED <<program, history>>

\* lines 244, 247, 253: `?` returns the error from main
Fail ==
    /\ pc \in {"roundtrip", "dispatch"}
    /\ pc' = "exit"
    /\ wl_event' = NoEvent
    /\ UNCHANGED <<program, history>>

\* process_input_events, lines 212-222: one keyboard event of the drain
KeyEvent(key, pressed) ==
    /\ pc = "drain"
    /\ active_keys' = ApplyKey(active_keys, key, pressed)
    /\ last_pressed' = IF pressed THEN last_pressed \cup {key}
                       ELSE last_pressed \ {key}
    /\ UNCHANGED <<pc, pointer_manager, virtual_pointer, prev_left_click,
                   prev_right_click, state, out, wl_event, created,
                   sink_left, sink_right>>
    /\ drain_first' = IF pressed /\ drain_first = {} THEN {key}
                      ELSE drain_first

\* DrainDone going past the call of line 252
DrainDoneSkipTick ==
    /\ pc = "drain"
    /\ pc' = "dispatch"
    /\ UNCHANGED <<program, wl_event, history>>

\* line 212: input.next() returns None
DrainDone ==
    /\ pc = "drain"
    /\ pc' = "tick"
    /\ UNCHANGED <<program, wl_event, history>>

\* update_and_handle_mouse_state, lines 84-146, called at line 252
Tick ==
    /\ pc = "tick"
    /\ pc' = "dispatch"
    /\ state' = TickState(active_keys)
    /\ out' = TickRequests(active_keys, virtual_pointer, state',
                           prev_left_click, prev_right_click)
    /\ IF META_KEY \notin active_keys
       THEN UNCHANGED <<prev_left_click, prev_right_click>>
       ELSE /\ prev_left_click' =
                 NextPrev(virtual_pointer, state'.left_click, prev_left_click)
            /\ prev_right_click' =
                 NextPrev(virtual_pointer, state'.right_click, prev_right_click)
    /\ sink_left' = SinkButton(out', BTN_LEFT, sink_left)
    /\ sink_right' = SinkButton(out', BTN_RIGHT, sink_right)
    /\ UNCHANGED <<pointer_manager, virtual_pointer, active_keys, wl_event,
                   created, last_pressed, drain_first>>

\* line 253: dispatch_pending returned Ok
DispatchDone ==
    /\ pc = "dispatch"
    /\ pc' = "sleep"
    /\ wl_event' = NoEvent
    /\ UNCHANGED <<program, history>>

\* line 254; the next drain starts
Sleep ==
    /\ pc = "sleep"
    /\ pc' = "drain"
    /\ drain_first' = {}
    /\ UNCHANGED <<program, wl_event, last_pressed, sink_left, sink_right>>

Next ==
    \/ \E i \in Interfaces : RegistryGlobal(i)
    \/ \E c \in SeatCaps : SeatCapabilities(c)
    \/ SetupDone
    \/ Fail
    \/ \E k \in Keys, p \in BOOLEAN : KeyEvent(k, p)
    \/ DrainDone
    \/ Tick
    \/ DispatchDone
    \/ Sleep

Spec == Init /\ [][Next]_vars

\* ---- the program as main() wires it ----
\* The queue hands an event to a Dispatch handler only for an object the
\* program created.  get_registry (line 243) creates the registry; the
\* Global handler binds the pointer manager and ignores every other
\* interface (`_ => {}`, line 205), so no wl_seat object exists and
\* Dispatch<WlSeat>::event is never called.  The display server announces
\* all of Interfaces, wl_seat included.
ProgNext ==
    \/ \E i \in Interfaces : RegistryGlobal(i)
    \/ SetupDone
    \/ Fail
    \/ \E k \in Keys, p \in BOOLEAN : KeyEvent(k, p)
    \/ DrainDone
    \/ Tick
    \/ DispatchDone
    \/ Sleep

\* the loop of lines 250-255 never blocks: each call returns; the
\* announcements of the server are delivered
ProgFairness ==
    /\ WF_vars(SetupDone)
    /\ WF_vars(DrainDone)
    /\ WF_vars(Tick)
    /\ WF_vars(DispatchDone)
    /\ WF_vars(Sleep)
    /\ \A i \in Interfaces : SF_vars(RegistryGlobal(i))

ProgSpec == Init /\ [][ProgNext]_vars /\ ProgFairness

\* ---- vocabulary of the properties ----

\* a step of the loop that runs update_and_handle_mouse_state
TickStep == pc = "tick" /\ pc' # "tick"

Held(key) == key \in active_keys

\* number of requests equal to r among those of the latest tick
Sent(r) == Cardinality({i \in DOMAIN out : out[i] = r})
SentNext(r) == Cardinality({i \in DOMAIN out' : out'[i] = r})

MotionSent == \E i \in DOMAIN out : out[i].op = "motion_absolute"
MotionSentNext == \E i \in DOMAIN out' : out'[i].op = "motion_absolute"

NoDirectionHeld ==
    active_keys \cap {MOVE_LEFT, MOVE_RIGHT, MOVE_UP, MOVE_DOWN} = {}

\* C1: a tick whose key set lacks the Modifier sends nothing and leaves
\* position, prev_left_click and prev_right_click as they were before it
\* (frozen in place, not reset).
C1_ModifierGate ==
    [][(TickStep /\ ~Held(META_KEY)) =>
         /\ out' = << >>
         /\ state'.x = state.x /\ state'.y = state.y
         /\ prev_left_click' = prev_left_click
         /\ prev_right_click' = prev_right_click]_vars

\* C2: on a tick with the Modifier held the new position is the position
\* left by the previous tick plus (dx, dy), clamped to the screen.
C2_PositionIntegrates ==
    [][(TickStep /\ Held(META_KEY)) =>
         /\ state'.x = Min(Max(state.x + state'.dx, 0), SCREEN_W)
         /\ state'.y = Min(Max(state.y + state'.dy, 0), SCREEN_H)]_vars

\* C3 (as claimed): with Modifier and a button key held over consecutive
\* ticks, the first of those ticks sends exactly one Pressed for that button
\* and the following ones none; the first tick after them with Modifier held
\* and the button key up sends exactly one Released; none of these ticks
\* sends a motion when no directional key is held.  state.left_click and
\* state.right_click tell whether the previous tick had Modifier and the
\* button key held.
C3_EdgeTriggering ==
    [][(TickStep /\ Held(META_KEY)) =>
         /\ (Held(MOUSE_LEFT) /\ ~state.left_click) =>
               SentNext(Button(BTN_LEFT, TRUE)) = 1
         /\ (Held(MOUSE_LEFT) /\ state.left_click) =>
               SentNext(Button(BTN_LEFT, TRUE)) = 0
         /\ (~Held(MOUSE_LEFT) /\ state.left_click) =>
               SentNext(Button(BTN_LEFT, FALSE)) = 1
         /\ (Held(MOUSE_RIGHT) /\ ~state.right_click) =>
               SentNext(Button(BTN_RIGHT, TRUE)) = 1
         /\ (Held(MOUSE_RIGHT) /\ state.right_click) =>
               SentNext(Button(BTN_RIGHT, TRUE)) = 0
         /\ (~Held(MOUSE_RIGHT) /\ state.right_click) =>
               SentNext(Button(BTN_RIGHT, FALSE)) = 1
         /\ NoDirectionHeld => ~MotionSentNext]_vars

\* C3 (amended): with the virtual pointer present, a tick with Modifier and
\* the button key held sends exactly one Pressed (and no Released) when the
\* stored flag was false before it and no button request when it was true,
\* and leaves the flag true; a tick with Modifier held and the button key up
\* sends exactly one Released (and no Pressed) when the flag was true, none
\* when it was false, and leaves it false; no step other than a tick changes
\* the flags; a tick with Modifier held and no directional key sends no
\* motion.
EdgeTriggered(key, code, prev, prevNext) ==
    /\ Held(key) =>
         /\ SentNext(Button(code, TRUE)) = (IF prev THEN 0 ELSE 1)
         /\ SentNext(Button(code, FALSE)) = 0
         /\ prevNext = TRUE
    /\ ~Held(key) =>
         /\ SentNext(Button(code, FALSE)) = (IF prev THEN 1 ELSE 0)
         /\ SentNext(Button(code, TRUE)) = 0
         /\ prevNext = FALSE

C3_EdgeTriggeringBound ==
    [][/\ (TickStep /\ Held(META_KEY) /\ virtual_pointer = "Some") =>
            /\ EdgeTriggered(MOUSE_LEFT, BTN_LEFT,
                             prev_left_click, prev_left_click')
            /\ EdgeTriggered(MOUSE_RIGHT, BTN_RIGHT,
                             prev_right_click, prev_right_click')
       /\ (TickStep /\ Held(META_KEY) /\ NoDirectionHeld) => ~MotionSentNext
       /\ ~TickStep => UNCHANGED <<prev_left_click, prev_right_click>>]_vars

\* a tick that released the left button pressed by an earlier tick
C3_Witness ==
    /\ pc = "dispatch"
    /\ Held(META_KEY) /\ ~Held(MOUSE_LEFT) /\ NoDirectionHeld
    /\ out = << Button(BTN_LEFT, FALSE), Frame >>
    /\ ~prev_left_click

\* C4: the pointer position always satisfies 0 <= x <= 1920 and
\* 0 <= y <= 1080.
C4_PositionInScreen ==
    /\ 0 <= state.x /\ state.x <= SCREEN_W
    /\ 0 <= state.y /\ state.y <= SCREEN_H

\* a tick that moved left and up from the origin and was clamped
C4_Witness ==
    /\ pc = "dispatch"
    /\ state.dx = -MOUSE_SPEED /\ state.dy = -MOUSE_SPEED
    /\ state.x = 0 /\ state.y = 0

\* C5: the position saturates at both corners.  On a tick with
\* Modifier+MoveLeft+MoveUp held (and not the opposite keys) each axis ends
\* at max(previous - 10, 0), so (0,0) remains (0,0); on a tick with
\* Modifier+MoveRight+MoveDown held (and not the opposite keys) each axis
\* ends at min(previous + 10, bound), so (1920,1080) remains (1920,1080);
\* no axis wraps or bounces.
C5_SaturatingClamp ==
    [][(TickStep /\ Held(META_KEY)) =>
         /\ (Held(MOVE_LEFT) /\ Held(MOVE_UP)
             /\ ~Held(MOVE_RIGHT) /\ ~Held(MOVE_DOWN)) =>
               /\ state'.x = Max(state.x - MOUSE_SPEED, 0)
               /\ state'.y = Max(state.y - MOUSE_SPEED, 0)
         /\ (Held(MOVE_RIGHT) /\ Held(MOVE_DOWN)
             /\ ~Held(MOVE_LEFT) /\ ~Held(MOVE_UP)) =>
               /\ state'.x = Min(state.x + MOUSE_SPEED, SCREEN_W)
               /\ state'.y = Min(state.y + MOUSE_SPEED, SCREEN_H)]_vars

\* C6: on a tick with Modifier held, MoveLeft and MoveRight together give
\* dx = 0 and MoveUp and MoveDown together give dy = 0; each directional key
\* alone gives -10 or +10 on its axis, and dx, dy are always in {-10, 0, 10}.
AxisDelta(neg, pos, d) ==
    /\ (Held(neg) /\ Held(pos)) => d = 0
    /\ (Held(neg) /\ ~Held(pos)) => d = -10
    /\ (~Held(neg) /\ Held(pos)) => d = 10
    /\ (~Held(neg) /\ ~Held(pos)) => d = 0

C6_Cancellation ==
    [][TickStep =>
         /\ state'.dx \in {-10, 0, 10} /\ state'.dy \in {-10, 0, 10}
         /\ Held(META_KEY) =>
              /\ AxisDelta(MOVE_LEFT, MOVE_RIGHT, state'.dx)
              /\ AxisDelta(MOVE_UP, MOVE_DOWN, state'.dy)]_vars

\* a tick with Modifier, MoveLeft and MoveRight held, and MoveDown alone on
\* the other axis
C6_Witness ==
    /\ pc = "dispatch"
    /\ Held(META_KEY) /\ Held(MOVE_LEFT) /\ Held(MOVE_RIGHT)
    /\ Held(MOVE_DOWN) /\ ~Held(MOVE_UP)
    /\ state.dx = 0 /\ state.dy = 10

\* C7: a tick sends a motion request if and only if Modifier is held, the
\* virtual pointer is present and dx # 0 or dy # 0 for that tick.
C7_MotionSuppression ==
    [][TickStep =>
         (MotionSentNext <=>
            /\ Held(META_KEY)
            /\ virtual_pointer = "Some"
            /\ (state'.dx # 0 \/ state'.dy # 0))]_vars

\* a tick with the pointer present, Modifier held and cancelling directional
\* keys: a button request was sent, no motion
C7_Witness ==
    /\ pc = "dispatch"
    /\ Held(META_KEY) /\ Held(MOVE_LEFT) /\ Held(MOVE_RIGHT) /\ Held(MOUSE_LEFT)
    /\ ~Held(MOVE_UP) /\ ~Held(MOVE_DOWN)
    /\ out = << Button(BTN_LEFT, TRUE), Frame >>

\* C8 (as claimed): every motion request carries
\* x = round(pos_x * 65535 / 1920) and y = round(pos_y * 65535 / 1080)
\* (to nearest), extents 65535, both values in [0, 65535].
RoundDiv(a, b) == (2 * a + b) \div (2 * b)

C8_RoundedNormalisation ==
    \A i \in DOMAIN out :
        out[i].op = "motion_absolute" =>
            /\ out[i].x = RoundDiv(state.x * 65535, 1920)
            /\ out[i].y = RoundDiv(state.y * 65535, 1080)
            /\ out[i].x_extent = 65535 /\ out[i].y_extent = 65535
            /\ out[i].x \in 0..65535 /\ out[i].y \in 0..65535

\* C8 (amended): every motion request carries the integer part of
\* pos_x * 65535 / 1920 and of pos_y * 65535 / 1080 (truncated, not rounded:
\* pos_y = 10 gives 606), extents 65535, both values in [0, 65535].
IsIntegerPart(n, v, hi) ==
    n * hi <= v * 65535 /\ v * 65535 < (n + 1) * hi

C8_TruncatedNormalisation ==
    \A i \in DOMAIN out :
        out[i].op = "motion_absolute" =>
            /\ IsIntegerPart(out[i].x, state.x, 1920)
            /\ IsIntegerPart(out[i].y, state.y, 1080)
            /\ out[i].x_extent = 65535 /\ out[i].y_extent = 65535
            /\ out[i].x \in 0..65535 /\ out[i].y \in 0..65535

\* a motion request for position (10, 10): 341 and 606
C8_Witness ==
    /\ state.x = 10 /\ state.y = 10
    /\ \E i \in DOMAIN out :
          out[i].op = "motion_absolute" /\ out[i].x = 341 /\ out[i].y = 606

\* C9: a tick run while the virtual pointer is absent sends no motion,
\* button or frame request, whatever keys are held, and the loop goes on to
\* dispatch_pending.
C9_AbsentHandleNoOp ==
    [][(TickStep /\ virtual_pointer = "None") =>
         out' = << >> /\ pc' = "dispatch"]_vars

\* a tick without pointer, with Modifier, a directional key and a button key
\* held
C9_Witness ==
    /\ pc = "dispatch"
    /\ virtual_pointer = "None"
    /\ Held(META_KEY) /\ Held(MOVE_RIGHT) /\ Held(MOUSE_LEFT)
    /\ state.dx = 10 /\ state.left_click
    /\ out = << >>

\* C10: every motion and every button request is immediately followed by a
\* frame request, and every frame request closes exactly one request; the
\* requests of a tick start with a request and end with a frame, so the
\* same holds of the whole stream.
C10_FrameDiscipline ==
    \A i \in DOMAIN out :
        /\ out[i].op # "frame" =>
              i < Len(out) /\ out[i + 1].op = "frame"
        /\ out[i].op = "frame" =>
              i > 1 /\ out[i - 1].op # "frame"

\* a tick that sent a motion, a left and a right button request
C10_Witness ==
    /\ Len(out) = 6
    /\ out[1].op = "motion_absolute"
    /\ out[3].op = "button" /\ out[3].button = BTN_LEFT
    /\ out[5].op = "button" /\ out[5].button = BTN_RIGHT

\* C11: the requests of one tick are sent in the order motion, left button
\* (code 0x110), right button (code 0x111), each at most once and each
\* followed by its frame.
RequestRank(r) ==
    IF r.op = "motion_absolute" THEN 1
    ELSE IF r.op = "button" /\ r.button = 272 THEN 2
    ELSE IF r.op = "button" /\ r.button = 273 THEN 3
    ELSE 0

C11_EmissionOrder ==
    /\ \A i \in DOMAIN out : out[i].op # "frame" => RequestRank(out[i]) > 0
    /\ \A i, j \in DOMAIN out :
          (i < j /\ out[i].op # "frame" /\ out[j].op # "frame") =>
              RequestRank(out[i]) < RequestRank(out[j])

\* a tick that sent a left Released and then a right Pressed
C11_Witness ==
    /\ pc = "dispatch"
    /\ out = << Button(BTN_LEFT, FALSE), Frame, Button(BTN_RIGHT, TRUE), Frame >>

\* C12: a key is in active_keys if and only if the most recent device event
\* for it was a press; one key event changes the membership of at most one
\* key and touches no other state, and only key events change active_keys.
DrainStep == pc = "drain" /\ pc' = "drain"

C12_ActiveKeySet ==
    /\ [](active_keys = last_pressed)
    /\ [][/\ DrainStep =>
              /\ Cardinality((active_keys \ active_keys')
                             \cup (active_keys' \ active_keys)) <= 1
              /\ UNCHANGED <<pointer_manager, virtual_pointer, prev_left_click,
                             prev_right_click, state, out, created>>
          /\ ~DrainStep => active_keys' = active_keys]_vars

\* the drain stored an unknown key and removed ButtonLeftKey, which the
\* latest tick had seen held
C12_Witness ==
    /\ pc = "drain"
    /\ OTHER_KEY \in active_keys
    /\ state.left_click /\ MOUSE_LEFT \notin active_keys

\* C13 (as claimed): after every tick with Modifier held, prev_left_click
\* equals (ButtonLeftKey held) and prev_right_click equals (ButtonRightKey
\* held), whether the virtual pointer is present or absent.
C13_FlagsTrackIntent ==
    [][(TickStep /\ Held(META_KEY)) =>
         /\ prev_left_click' = Held(MOUSE_LEFT)
         /\ prev_right_click' = Held(MOUSE_RIGHT)]_vars

\* C13 (amended): after every tick with Modifier held and the virtual
\* pointer present, the flags equal the button keys' held state, whether or
\* not a transition was sent; a tick with the virtual pointer absent leaves
\* both flags as they were.
C13_FlagsTrackIntentBound ==
    [][(TickStep /\ Held(META_KEY)) =>
         IF virtual_pointer = "Some"
         THEN /\ prev_left_click' = Held(MOUSE_LEFT)
              /\ prev_right_click' = Held(MOUSE_RIGHT)
         ELSE UNCHANGED <<prev_left_click, prev_right_click>>]_vars

\* a tick with the pointer present and both button keys held that sent no
\* request: the flags equal the intent without a transition
C13_Witness ==
    /\ pc = "dispatch"
    /\ virtual_pointer = "Some"
    /\ Held(META_KEY) /\ Held(MOUSE_LEFT) /\ Held(MOUSE_RIGHT)
    /\ prev_left_click /\ prev_right_click
    /\ out = << >>

\* C14: once a Pressed has been sent for a button and not yet a Released
\* (sink_left, sink_right), a tick without Modifier sends no Released and
\* leaves the stored flag true, whether or not the button key is still held;
\* a tick with Modifier held and the button key up sends exactly one
\* Released; a tick with no Pressed outstanding sends no Released, so the
\* Released goes out exactly once.
DeferredRelease(key, code, sunk, sunkNext, prevNext) ==
    /\ (sunk /\ ~Held(META_KEY)) =>
          /\ SentNext(Button(code, FALSE)) = 0
          /\ sunkNext /\ prevNext
    /\ (sunk /\ Held(META_KEY) /\ ~Held(key)) =>
          /\ SentNext(Button(code, FALSE)) = 1
          /\ ~sunkNext /\ ~prevNext
    /\ (sunk /\ Held(META_KEY) /\ Held(key)) =>
          /\ SentNext(Button(code, FALSE)) = 0
          /\ sunkNext /\ prevNext
    /\ ~sunk => SentNext(Button(code, FALSE)) = 0

C14_DeferredRelease ==
    [][TickStep =>
         /\ DeferredRelease(MOUSE_LEFT, BTN_LEFT, sink_left, sink_left',
                            prev_left_click')
         /\ DeferredRelease(MOUSE_RIGHT, BTN_RIGHT, sink_right, sink_right',
                            prev_right_click')]_vars

\* a tick without Modifier after the left Pressed was sent and ButtonLeftKey
\* released: nothing sent, the Released is still owed
C14_Witness ==
    /\ pc = "dispatch"
    /\ ~Held(META_KEY) /\ ~Held(MOUSE_LEFT)
    /\ sink_left /\ prev_left_click
    /\ out = << >>

\* C15: the virtual pointer goes from absent to present only in a step that
\* handles a seat capability announcement with pointer capability while the
\* pointer manager is already bound; an announcement handled without the
\* manager, or without pointer capability, leaves it absent, and a registry
\* announcement (discovering the manager) never creates it.
HandleCreated == virtual_pointer = "None" /\ virtual_pointer' = "Some"

PointerAnnounced(e) ==
    e.type = "capabilities" /\ e.caps.ok /\ "Pointer" \in e.caps.caps

C15_NegotiationGuard ==
    [][/\ HandleCreated =>
            /\ PointerAnnounced(wl_event')
            /\ pointer_manager = "Some" /\ pointer_manager' = "Some"
       /\ (wl_event'.type = "capabilities"
           /\ (~PointerAnnounced(wl_event') \/ pointer_manager = "None")) =>
            virtual_pointer' = virtual_pointer
       /\ wl_event'.type = "global" => virtual_pointer' = virtual_pointer]_vars

\* a pointer capability announcement handled before the manager was
\* discovered: the virtual pointer is still absent
C15_Witness ==
    /\ PointerAnnounced(wl_event)
    /\ pointer_manager = "None"
    /\ virtual_pointer = "None"

\* C16: once the virtual pointer is present it stays present and no further
\* create_virtual_pointer request is made, whatever announcements follow;
\* at most one virtual pointer is ever created.
C16_BoundIsTerminal ==
    /\ [](created <= 1)
    /\ [][virtual_pointer = "Some" =>
            virtual_pointer' = "Some" /\ created' = created]_vars

\* a pointer capability announcement handled after the virtual pointer had
\* already been used to press the left button
C16_Witness ==
    /\ pc = "dispatch"
    /\ PointerAnnounced(wl_event)
    /\ pointer_manager = "Some"
    /\ virtual_pointer = "Some" /\ created = 1
    /\ sink_left

\* C17: when the display server announces the pointer manager and a seat
\* with pointer capability, the virtual pointer eventually becomes present
\* (unless main returns with an error).
C17_NegotiationCompletes ==
    <>(virtual_pointer = "Some" \/ pc = "exit")

\* C18: every iteration runs drain, one tick, dispatch, sleep in this order;
\* the key set changes only inside the drain, the tick's results only in the
\* tick, and events of the sink are handled only while the queue is
\* dispatched; the tick reads the key set as the whole drain left it, so a
\* key pressed and then released within the drain (drain_first not in
\* last_pressed) is not seen by the tick and causes no output.
NextPc(p) ==
    CASE p = "roundtrip" -> {"drain", "exit"}
      [] p = "drain" -> {"tick"}
      [] p = "tick" -> {"dispatch"}
      [] p = "dispatch" -> {"sleep", "exit"}
      [] p = "sleep" -> {"drain"}
      [] OTHER -> {}

NotSeen(k) ==
    /\ k = META_KEY => out' = << >> /\ state' = MouseStateDefault
    /\ k = MOVE_LEFT => state'.dx >= 0
    /\ k = MOVE_RIGHT => state'.dx <= 0
    /\ k = MOVE_UP => state'.dy >= 0
    /\ k = MOVE_DOWN => state'.dy <= 0
    /\ k = MOUSE_LEFT =>
          ~state'.left_click /\ SentNext(Button(BTN_LEFT, TRUE)) = 0
    /\ k = MOUSE_RIGHT =>
          ~state'.right_click /\ SentNext(Button(BTN_RIGHT, TRUE)) = 0

C18_LoopOrdering ==
    [][/\ pc' # pc => pc' \in NextPc(pc)
       /\ active_keys' # active_keys => DrainStep
       /\ <<state, out, prev_left_click, prev_right_click>>'
            # <<state, out, prev_left_click, prev_right_click>> => TickStep
       /\ <<wl_event, pointer_manager, virtual_pointer>>'
            # <<wl_event, pointer_manager, virtual_pointer>> =>
              pc \in {"roundtrip", "dispatch"}
       /\ TickStep =>
            /\ active_keys = last_pressed
            /\ \A k \in drain_first \ last_pressed : NotSeen(k)]_vars

\* a tick after a drain in which ButtonLeftKey was pressed and released,
\* with Modifier held and the pointer present: nothing was sent
C18_Witness ==
    /\ pc = "dispatch"
    /\ drain_first = {MOUSE_LEFT} /\ ~Held(MOUSE_LEFT)
    /\ Held(META_KEY) /\ virtual_pointer = "Some" /\ wl_event = NoEvent
    /\ ~sink_left
    /\ out = << >>

\* C19: for each button the requests sent alternate Pressed, Released,
\* Pressed, ... starting with Pressed: a tick sends at most one request per
\* button, a Pressed only when the last state sent for it is not Pressed
\* (none or Released) and a Released only when it is Pressed; the stored
\* flag always equals the last state sent (false if none was sent).
Alternates(code, sunk) ==
    /\ SentNext(Button(code, TRUE)) + SentNext(Button(code, FALSE)) <= 1
    /\ SentNext(Button(code, TRUE)) = 1 => ~sunk
    /\ SentNext(Button(code, FALSE)) = 1 => sunk

C19_ButtonAlternation ==
    /\ [](prev_left_click = sink_left /\ prev_right_click = sink_right)
    /\ [][/\ TickStep => /\ Alternates(BTN_LEFT, sink_left)
                         /\ Alternates(BTN_RIGHT, sink_right)
          /\ ~TickStep => out' = out]_vars

\* a tick that released the right button while the left one stays pressed
C19_Witness ==
    /\ pc = "dispatch"
    /\ out = << Button(BTN_RIGHT, FALSE), Frame >>
    /\ sink_left /\ prev_left_click
    /\ ~sink_right /\ ~prev_right_click

====
